---- MODULE Spec2Model ----
(***************************************************************************)
(* A model of mpc.rs: the MPD client library (src/src/lib.rs), its parsing *)
(* module (src/src/parse.rs) and the `mpc` front end (src/src/bin/mpc.rs). *)
(*                                                                         *)
(* Text is modelled at the character level: a Rust `str` is a sequence of  *)
(* one-character strings, so that prefix/suffix tests, trimming, splitting *)
(* and number conversion are computed the way the code computes them.      *)
(***************************************************************************)
EXTENDS Integers, Sequences, FiniteSets, TLC

(***************************************************************************)
(* Bounds of the model.                                                    *)
(***************************************************************************)
\* Longest reply, in lines, that the modelled server sends to one command.
MaxReplyLines == 3
\* Largest number of song records in a modelled playlist reply.
MaxSongs == 2
\* Most required keys that a modelled response body leaves out.
MaxMissing == 2
\* Most lines a modelled response body carries besides its required keys.
MaxExtra == 2
\* Largest numeric argument (position, level) drawn for the encoder.
MaxNum == 11
\* Largest number of version components in a modelled greeting.
MaxComponents == 4

(***************************************************************************)
(* str primitives (Rust std, as used by the sources).                      *)
(***************************************************************************)
NL == "\n"

\* Option<T>, kept uniform so that values stay comparable.
Some(v) == [some |-> TRUE, val |-> v]
NoneStr == [some |-> FALSE, val |-> <<>>]
NoneInt == [some |-> FALSE, val |-> 0]

\* str::starts_with
StartsWith(s, p) == Len(s) >= Len(p) /\ SubSeq(s, 1, Len(p)) = p

\* str::ends_with
EndsWith(s, p) == Len(s) >= Len(p) /\ SubSeq(s, Len(s) - Len(p) + 1, Len(s)) = p

\* char::is_whitespace, over the characters the model draws
IsWhitespace(c) == c \in {" ", NL, "\t", "\r"}

\* str::trim_right
RECURSIVE TrimRight(_)
TrimRight(s) ==
    IF s # <<>> /\ IsWhitespace(s[Len(s)])
    THEN TrimRight(SubSeq(s, 1, Len(s) - 1))
    ELSE s

\* str::trim
RECURSIVE TrimLeft(_)
TrimLeft(s) ==
    IF s # <<>> /\ IsWhitespace(s[1]) THEN TrimLeft(Tail(s)) ELSE s

Trim(s) == TrimLeft(TrimRight(s))

\* the least element of a set of indices, 0 when there is none
FirstOrZero(hits) == IF hits = {} THEN 0 ELSE CHOOSE i \in hits : \A j \in hits : i <= j

\* str::find: the 1-based index of the first occurrence of p in s, 0 for None
Find(s, p) ==
    FirstOrZero({i \in 1..(Len(s) - Len(p) + 1) : SubSeq(s, i, i + Len(p) - 1) = p})

\* str::splitn(n, sep), collected: at most n parts, the last one the remainder.
\* SplitAt is one step of the iterator, i the match of sep in what is left.
RECURSIVE SplitN(_, _, _)
SplitAt(s, n, sep, i) ==
    IF i = 0 THEN <<s>>
    ELSE <<SubSeq(s, 1, i - 1)>> \o SplitN(SubSeq(s, i + Len(sep), Len(s)), n - 1, sep)

SplitN(s, n, sep) ==
    IF n = 0 THEN <<>>
    ELSE IF n = 1 THEN <<s>>
    ELSE SplitAt(s, n, sep, Find(s, sep))

\* a line without the "\r" of a "\r\n" line ending
StripCr(raw) ==
    IF raw # <<>> /\ raw[Len(raw)] = "\r" THEN SubSeq(raw, 1, Len(raw) - 1) ELSE raw

\* str::lines, collected: split at "\n" (a preceding "\r" is part of the line
\* ending); a final empty piece is not a line.  LinesAt is one step of the
\* iterator, i the index of the next "\n".
RECURSIVE StrLines(_)
LinesAt(s, i) ==
    IF i = 0 THEN <<s>>
    ELSE <<StripCr(SubSeq(s, 1, i - 1))>> \o StrLines(SubSeq(s, i + 1, Len(s)))

StrLines(s) == IF s = <<>> THEN <<>> ELSE LinesAt(s, Find(s, <<NL>>))

\* concatenation of a sequence of strings
RECURSIVE Concat(_)
Concat(ss) == IF ss = <<>> THEN <<>> ELSE Head(ss) \o Concat(Tail(ss))

(***************************************************************************)
(* Integer conversion.                                                     *)
(***************************************************************************)
Digits == <<"0", "1", "2", "3", "4", "5", "6", "7", "8", "9">>

IsDigit(c) == \E d \in 1..10 : Digits[d] = c

DigitVal(c) == (CHOOSE d \in 1..10 : Digits[d] = c) - 1

\* a digit string without its leading zeros
RECURSIVE StripZeros(_)
StripZeros(d) == IF Len(d) > 1 /\ d[1] = "0" THEN StripZeros(Tail(d)) ELSE d

\* d <= m for two digit strings without leading zeros
RECURSIVE DigitsLeq(_, _)
DigitsLeq(d, m) ==
    IF Len(d) # Len(m) THEN Len(d) < Len(m)
    ELSE IF d = <<>> THEN TRUE
    ELSE IF d[1] # m[1] THEN DigitVal(d[1]) < DigitVal(m[1])
    ELSE DigitsLeq(Tail(d), Tail(m))

\* the value of a digit string
RECURSIVE DecVal(_)
DecVal(d) ==
    IF d = <<>> THEN 0 ELSE 10 * DecVal(SubSeq(d, 1, Len(d) - 1)) + DigitVal(d[Len(d)])

\* u8::MAX and u32::MAX as decimal numerals
U8Max == <<"2", "5", "5">>
U32Max == <<"4", "2", "9", "4", "9", "6", "7", "2", "9", "5">>

\* from_str, the overflow check: z is the digit string without leading zeros
InRange(z, max) == IF DigitsLeq(z, max) THEN Some(DecVal(z)) ELSE NoneInt

\* from_str, the digits after the optional sign
ParseDigits(d, max) ==
    IF d = <<>> \/ \E i \in 1..Len(d) : ~IsDigit(d[i]) THEN NoneInt
    ELSE InRange(StripZeros(d), max)

\* <unsigned>::from_str(s).ok(): an optional "+", then one or more digits,
\* and the value must fit the type (max is the type's MAX as a numeral).  Any
\* other character, a "-", or an empty digit string is an error.
ParseUnsigned(s, max) ==
    ParseDigits(IF s # <<>> /\ s[1] = "+" THEN Tail(s) ELSE s, max)

\* Display for unsigned integers: format!("{}", n)
RECURSIVE ToDecimal(_)
ToDecimal(n) ==
    IF n < 10 THEN <<Digits[n + 1]>> ELSE ToDecimal(n \div 10) \o <<Digits[(n % 10) + 1]>>

(***************************************************************************)
(* lib.rs: Mode, Command and the command encoder.                          *)
(***************************************************************************)
Modes == {"Consume", "Random", "Repeat", "Single"}

\* Mode::str
ModeStr(mode) ==
    CASE mode = "Consume" -> <<"c", "o", "n", "s", "u", "m", "e">>
      [] mode = "Random"  -> <<"r", "a", "n", "d", "o", "m">>
      [] mode = "Repeat"  -> <<"r", "e", "p", "e", "a", "t">>
      [] mode = "Single"  -> <<"s", "i", "n", "g", "l", "e">>

\* A Command value: `op` is the variant, the other fields are the variant's
\* payload (unused ones hold a fixed filler).
Cmd(op, uri, flag, num, mode) ==
    [op |-> op, uri |-> uri, flag |-> flag, num |-> num, mode |-> mode]

CmdPlain(op) == Cmd(op, NoneStr, FALSE, NoneInt, "Consume")

\* Command::str
CommandStr(cmd) ==
    CASE cmd.op = "Add" ->
            <<"a", "d", "d", " ", "\"">> \o cmd.uri.val \o <<"\"">>
      [] cmd.op = "Clear" -> <<"c", "l", "e", "a", "r">>
      [] cmd.op = "CurrentSong" ->
            <<"c", "u", "r", "r", "e", "n", "t", "s", "o", "n", "g">>
      [] cmd.op = "ListAll" /\ ~cmd.uri.some -> <<"l", "i", "s", "t", "a", "l", "l">>
      [] cmd.op = "ListAll" /\ cmd.uri.some ->
            <<"l", "i", "s", "t", "a", "l", "l", " ", "\"">> \o cmd.uri.val \o <<"\"">>
      [] cmd.op = "Next" -> <<"n", "e", "x", "t">>
      [] cmd.op = "Pause" /\ ~cmd.flag -> <<"p", "a", "u", "s", "e", " ", "0">>
      [] cmd.op = "Pause" /\ cmd.flag -> <<"p", "a", "u", "s", "e", " ", "1">>
      [] cmd.op = "Play" /\ ~cmd.num.some -> <<"p", "l", "a", "y">>
      [] cmd.op = "Play" /\ cmd.num.some ->
            <<"p", "l", "a", "y", " ">> \o ToDecimal(cmd.num.val)
      [] cmd.op = "PlaylistInfo" ->
            <<"p", "l", "a", "y", "l", "i", "s", "t", "i", "n", "f", "o">>
      [] cmd.op = "Previous" -> <<"p", "r", "e", "v", "i", "o", "u", "s">>
      [] cmd.op = "Set" ->
            ModeStr(cmd.mode) \o <<" ">> \o (IF cmd.flag THEN <<"1">> ELSE <<"0">>)
      [] cmd.op = "Status" -> <<"s", "t", "a", "t", "u", "s">>
      [] cmd.op = "Stop" -> <<"s", "t", "o", "p">>
      [] cmd.op = "Update" /\ ~cmd.uri.some -> <<"u", "p", "d", "a", "t", "e">>
      [] cmd.op = "Update" /\ cmd.uri.some ->
            <<"u", "p", "d", "a", "t", "e", " ", "\"">> \o cmd.uri.val \o <<"\"">>
      [] cmd.op = "Volume" ->
            <<"s", "e", "t", "v", "o", "l", " ">> \o ToDecimal(cmd.num.val)

\* the bytes Connection::send hands to the stream: writeln!(stream, "{}", cmd.str())
SendBytes(cmd) == CommandStr(cmd) \o <<NL>>

(***************************************************************************)
(* lib.rs: Version.                                                        *)
(***************************************************************************)
NoVersion == [major |-> 0, minor |-> 0, patch |-> 0]

\* Version::parse, one component: parts.next().ok_or(()) and .parse()
ComponentAt(parts, i) ==
    IF Len(parts) >= i THEN ParseUnsigned(parts[i], U32Max) ELSE NoneInt

\* Version::parse, the three try!s and the Ok(Version { .. })
VersionOf(major, minor, patch) ==
    IF major.some /\ minor.some /\ patch.some
    THEN [ok |-> TRUE,
          val |-> [major |-> major.val, minor |-> minor.val, patch |-> patch.val]]
    ELSE [ok |-> FALSE, val |-> NoVersion]

VersionOfParts(parts) ==
    VersionOf(ComponentAt(parts, 1), ComponentAt(parts, 2), ComponentAt(parts, 3))

\* a Version::parse that splits into up to four parts and reads three
VersionParseSplit4(input) == VersionOfParts(SplitN(input, 4, <<".">>))

\* Version::parse: Result<Version, ()>
VersionParse(input) == VersionOfParts(SplitN(input, 3, <<".">>))

(***************************************************************************)
(* parse.rs: errors, value parsers, the key-value line scanner.            *)
(***************************************************************************)
\* parse::Error; `kind` is the variant, `key` the ExpectedKey key, `ty` the
\* ParseType type name, `text` the variant's lines / line / value
ParseError(kind, key, ty, text) == [kind |-> kind, key |-> key, ty |-> ty, text |-> text]
NoError == ParseError("None", <<>>, "", <<>>)
ExpectedKey(key, lines) == ParseError("ExpectedKey", key, "", lines)
MissingValue(line) == ParseError("MissingValue", <<>>, "", line)
ParseType(ty, value) == ParseError("ParseType", <<>>, ty, value)

\* Result<T, Error>
Ok(v) == [ok |-> TRUE, val |-> v, err |-> NoError]
Err(e) == [ok |-> FALSE, val |-> 0, err |-> e]

\* parse_bool
ParseBool(value) ==
    IF value = <<"0">> THEN Ok(FALSE)
    ELSE IF value = <<"1">> THEN Ok(TRUE)
    ELSE Err(ParseType("bool", value))

\* parse_ty: value.parse::<T>().map_err(..), o the outcome of the parse
MapErr(o, ty, value) == IF o.some THEN Ok(o.val) ELSE Err(ParseType(ty, value))

\* parse_ty!(value, u32) and parse_ty!(value, u8)
ParseTyU32(value) == MapErr(ParseUnsigned(value, U32Max), "u32", value)

ParseTyU8(value) == MapErr(ParseUnsigned(value, U8Max), "u8", value)

\* f64::from_str for plain decimal numerals: d is the text after an optional
\* sign, digits with at most one "."; the value is kept as its numeral
IsDecimal(d) ==
    /\ \A i \in 1..Len(d) : IsDigit(d[i]) \/ d[i] = "."
    /\ Cardinality({i \in 1..Len(d) : d[i] = "."}) <= 1
    /\ \E i \in 1..Len(d) : IsDigit(d[i])

\* parse_ty!(value, f64)
ParseTyF64(value) ==
    IF IsDecimal(IF value # <<>> /\ value[1] \in {"+", "-"} THEN Tail(value) ELSE value)
    THEN Ok(value) ELSE Err(ParseType("f64", value))

\* State::parse
StateParse(input) ==
    IF input = <<"p", "l", "a", "y">> THEN Ok("Play")
    ELSE IF input = <<"p", "a", "u", "s", "e">> THEN Ok("Pause")
    ELSE IF input = <<"s", "t", "o", "p">> THEN Ok("Stop")
    ELSE Err(ParseType("State", input))

\* Time::parse
NoTime == [elapsed |-> 0, total |-> 0]

\* Time::parse, Ok(Time { elapsed: try!(..), total: try!(..) })
TimeOf(elapsed, total) ==
    IF ~elapsed.ok THEN Err(elapsed.err)
    ELSE IF ~total.ok THEN Err(total.err)
    ELSE Ok([elapsed |-> elapsed.val, total |-> total.val])

\* Time::parse, after input.splitn(2, ':')
TimeOfParts(input, parts) ==
    IF Len(parts) < 2 THEN Err(ParseType("Time", input))
    ELSE TimeOf(ParseTyU32(parts[1]), ParseTyU32(parts[2]))

TimeParse(input) == TimeOfParts(input, SplitN(input, 2, <<":">>))

\* the locals of Song::parse
SongLocals(input) ==
    [artist |-> Err(ExpectedKey(<<"A", "r", "t", "i", "s", "t">>, input)),
     title  |-> Err(ExpectedKey(<<"T", "i", "t", "l", "e">>, input))]

\* the closure Song::parse hands to parse_pairs: the locals after the line,
\* and the closure's result
SongEachLine(acc, k, v) ==
    [acc |-> IF k = <<"A", "r", "t", "i", "s", "t">> THEN [acc EXCEPT !.artist = Ok(v)]
             ELSE IF k = <<"T", "i", "t", "l", "e">> THEN [acc EXCEPT !.title = Ok(v)]
             ELSE acc,
     res |-> Ok(TRUE)]

\* the locals of Status::parse
StatusLocals(input) ==
    [consume        |-> Err(ExpectedKey(<<"c", "o", "n", "s", "u", "m", "e">>, input)),
     elapsed        |-> NoneStr,
     playlistlength |-> Err(ExpectedKey(
                           <<"p", "l", "a", "y", "l", "i", "s", "t", "l", "e", "n", "g", "t", "h">>,
                           input)),
     random         |-> Err(ExpectedKey(<<"r", "a", "n", "d", "o", "m">>, input)),
     repeat         |-> Err(ExpectedKey(<<"r", "e", "p", "e", "a", "t">>, input)),
     single         |-> Err(ExpectedKey(<<"s", "i", "n", "g", "l", "e">>, input)),
     song           |-> NoneInt,
     state          |-> Err(ExpectedKey(<<"s", "t", "a", "t", "e">>, input)),
     time           |-> [some |-> FALSE, val |-> NoTime],
     updating_db    |-> NoneInt,
     volume         |-> Err(ExpectedKey(<<"v", "o", "l", "u", "m", "e">>, input))]

\* an arm `x = parse(v)`: the Result is stored, the closure returns Ok(())
Store(acc, field, r) == [acc |-> [acc EXCEPT ![field] = r], res |-> Ok(TRUE)]

\* an arm `x = Some(try!(parse(v)))`: an Err leaves the closure at once
StoreTry(acc, field, r) ==
    IF r.ok THEN [acc |-> [acc EXCEPT ![field] = Some(r.val)], res |-> Ok(TRUE)]
    ELSE [acc |-> acc, res |-> Err(r.err)]

\* Result::map(Some)
MapSome(r) == IF r.ok THEN Ok(Some(r.val)) ELSE r

\* a volume arm without the test for "-1"
VolumeValueNoSentinel(v) == MapSome(ParseTyU8(v))

\* the "volume" arm of Status::parse
VolumeValue(v) == IF v = <<"-", "1">> THEN Ok(NoneInt) ELSE MapSome(ParseTyU8(v))

\* the closure Status::parse hands to parse_pairs
StatusEachLine(acc, k, v) ==
    CASE k = <<"c", "o", "n", "s", "u", "m", "e">> -> Store(acc, "consume", ParseBool(v))
      [] k = <<"e", "l", "a", "p", "s", "e", "d">> -> StoreTry(acc, "elapsed", ParseTyF64(v))
      [] k = <<"p", "l", "a", "y", "l", "i", "s", "t", "l", "e", "n", "g", "t", "h">> ->
            Store(acc, "playlistlength", ParseTyU32(v))
      [] k = <<"r", "a", "n", "d", "o", "m">> -> Store(acc, "random", ParseBool(v))
      [] k = <<"r", "e", "p", "e", "a", "t">> -> Store(acc, "repeat", ParseBool(v))
      [] k = <<"s", "i", "n", "g", "l", "e">> -> Store(acc, "single", ParseBool(v))
      [] k = <<"s", "o", "n", "g">> -> StoreTry(acc, "song", ParseTyU32(v))
      [] k = <<"s", "t", "a", "t", "e">> -> Store(acc, "state", StateParse(v))
      [] k = <<"t", "i", "m", "e">> -> StoreTry(acc, "time", TimeParse(v))
      [] k = <<"u", "p", "d", "a", "t", "i", "n", "g", "_", "d", "b">> ->
            StoreTry(acc, "updating_db", ParseTyU32(v))
      [] k = <<"v", "o", "l", "u", "m", "e">> -> Store(acc, "volume", VolumeValue(v))
      [] OTHER -> [acc |-> acc, res |-> Ok(TRUE)]

\* the each_line argument of parse_pairs: the closure of the decoder `dec`
EachLine(dec, acc, k, v) ==
    IF dec = "Status" THEN StatusEachLine(acc, k, v) ELSE SongEachLine(acc, k, v)

\* the for loop of parse_pairs over the lines still to scan: the closure's
\* locals after the scan and the Result of parse_pairs.  ScanLine is the
\* loop body for the first of `lines`, split into `parts`; ScanNext is
\* try!(each_line(k, v)) with r what the closure returned.
RECURSIVE ScanLines(_, _, _)
ScanNext(dec, lines, r) == IF ~r.res.ok THEN r ELSE ScanLines(dec, Tail(lines), r.acc)

\* a loop body that passes over a line without the separator
ScanLineSkip(dec, lines, acc, parts) ==
    IF Len(parts) < 2 THEN ScanLines(dec, Tail(lines), acc)
    ELSE ScanNext(dec, lines, EachLine(dec, acc, parts[1], parts[2]))

ScanLine(dec, lines, acc, parts) ==
    IF Len(parts) < 2 THEN [acc |-> acc, res |-> Err(MissingValue(Head(lines)))]
    ELSE ScanNext(dec, lines, EachLine(dec, acc, parts[1], parts[2]))

ScanLines(dec, lines, acc) ==
    IF lines = <<>> THEN [acc |-> acc, res |-> Ok(TRUE)]
    ELSE ScanLine(dec, lines, acc, SplitN(Head(lines), 2, <<":", " ">>))

\* parse_pairs
ParsePairs(dec, input, acc) == ScanLines(dec, StrLines(input), acc)

(***************************************************************************)
(* parse.rs: the record decoders.                                          *)
(***************************************************************************)
\* a Song that takes the empty string for a key that never appeared
SongOfDefault(r) ==
    IF ~r.res.ok THEN Err(r.res.err)
    ELSE Ok([artist |-> IF r.acc.artist.ok THEN r.acc.artist.val ELSE <<>>,
             title  |-> IF r.acc.title.ok THEN r.acc.title.val ELSE <<>>])

\* Song::parse after parse_pairs: the try!s and the Ok(Song { .. })
SongOf(r) ==
    IF ~r.res.ok THEN Err(r.res.err)
    ELSE IF ~r.acc.artist.ok THEN Err(r.acc.artist.err)
    ELSE IF ~r.acc.title.ok THEN Err(r.acc.title.err)
    ELSE Ok([artist |-> r.acc.artist.val, title |-> r.acc.title.val])

\* Song::parse
SongParse(input) == SongOf(ParsePairs("Song", input, SongLocals(input)))

NoExtra ==
    [some |-> FALSE,
     val |-> [elapsed |-> NoneStr, pos |-> 0, time |-> [some |-> FALSE, val |-> NoTime]]]

\* an Extra that is built only when there is a Time as well
ExtraOfWithTime(a) ==
    IF a.song.some /\ a.time.some
    THEN Some([elapsed |-> a.elapsed, pos |-> a.song.val, time |-> a.time])
    ELSE NoExtra

\* Status::parse: song.map(|song| Extra { .. })
ExtraOf(a) ==
    IF a.song.some
    THEN Some([elapsed |-> a.elapsed, pos |-> a.song.val, time |-> a.time])
    ELSE NoExtra

\* Status::parse after parse_pairs: the try!s and the Ok(Status { .. })
StatusOf(r) ==
    IF ~r.res.ok THEN Err(r.res.err)
    ELSE IF ~r.acc.consume.ok THEN Err(r.acc.consume.err)
    ELSE IF ~r.acc.playlistlength.ok THEN Err(r.acc.playlistlength.err)
    ELSE IF ~r.acc.random.ok THEN Err(r.acc.random.err)
    ELSE IF ~r.acc.repeat.ok THEN Err(r.acc.repeat.err)
    ELSE IF ~r.acc.single.ok THEN Err(r.acc.single.err)
    ELSE IF ~r.acc.state.ok THEN Err(r.acc.state.err)
    ELSE IF ~r.acc.volume.ok THEN Err(r.acc.volume.err)
    ELSE Ok([consume         |-> r.acc.consume.val,
             extra           |-> ExtraOf(r.acc),
             playlist_length |-> r.acc.playlistlength.val,
             random          |-> r.acc.random.val,
             repeat          |-> r.acc.repeat.val,
             single          |-> r.acc.single.val,
             state           |-> r.acc.state.val,
             updating_db     |-> r.acc.updating_db,
             volume          |-> r.acc.volume.val])

\* Status::parse
StatusParse(input) == StatusOf(ParsePairs("Status", input, StatusLocals(input)))

(***************************************************************************)
(* The state.                                                              *)
(*                                                                         *)
(* The program is the `mpc` process: run() and status() of bin/mpc.rs,     *)
(* calling connect, Connection::send and Connection::recv of lib.rs.  Its  *)
(* environment is the TCP stream to the MPD server.                        *)
(***************************************************************************)
VARIABLES
    sub,        \* argv: the subcommand name, "" when none was given
    arg,        \* argv: the subcommand's argument, an Option<&str>
    quiet,      \* run(): `quiet`
    pc,         \* where the process is: a blocking call it is at, or how it ended
    fault,      \* why the process ended abnormally, "none" while it has not
    conn,       \* run(): `conn_opt`, with the Connection's buffer and version
    cmd,        \* the Command handed to Connection::send
    caller,     \* the call site of the Connection::recv in progress
    ret,        \* the &str the last Connection::recv returned
    status,     \* status(): `status`
    stdout,     \* lines printed so far (version, listall, playlist, current song)
    rx,         \* stream, server to client: the bytes not yet read
    tx,         \* stream, client to server: the bytes not yet taken by the server
    closed,     \* the server has closed the stream
    greeted,    \* the server has sent its greeting
    greeting,   \* history: the greeting the server sent, as it composed it
    lastReply,  \* history: the lines of the latest reply the server sent
    nsent,      \* history: number of commands written to the stream
    inflight,   \* history: commands written whose reply terminator is still unread
    terms,      \* history: offsets in rx just past each reply terminator
    clean,      \* history: the latest command was written with nothing left unread
    eofSeen,    \* history: a read_line of recv returned 0 bytes (end of stream)
    served,     \* what the server holds and renders its replies from, if fixed
    parseErr    \* the ParseError handed to parse::bug, NoError while there is none

prog  == <<sub, arg, quiet, pc, fault, conn, cmd, caller, ret, status, stdout>>
net   == <<rx, tx, closed, greeted>>
hist  == <<greeting, lastReply, nsent, inflight, terms, clean, eofSeen>>
fn    == <<served, parseErr>>
vars  == <<prog, net, hist, fn>>

\* the server is free in what it replies
NoData == [kind |-> "any"]

\* conn_opt = None
NoConn == [some |-> FALSE, buffer |-> <<>>, version |-> NoVersion]

\* `status` before Status::parse has run
NoStatus ==
    [consume |-> FALSE, extra |-> NoExtra, playlist_length |-> 0, random |-> FALSE,
     repeat |-> FALSE, single |-> FALSE, state |-> "Stop", updating_db |-> NoneInt,
     volume |-> NoneInt]

(***************************************************************************)
(* The stream: BufRead::read_line.                                         *)
(***************************************************************************)
\* read_line returns once a whole line is there, or at end of stream
CanReadLine == Find(rx, <<NL>>) # 0 \/ closed

\* the bytes read_line appends: through the first "\n", or what is left at
\* end of stream (nothing, when all was read)
LineUpTo(i) == IF i # 0 THEN SubSeq(rx, 1, i) ELSE rx

LineRead == LineUpTo(Find(rx, <<NL>>))

\* history bookkeeping for n bytes leaving rx
TermsAfter(n) ==
    SelectSeq([i \in 1..Len(terms) |-> terms[i] - n], LAMBDA t : t > 0)

\* a read_line that returned `line`: the bytes leave the stream
Consume(line) ==
    /\ rx' = SubSeq(rx, Len(line) + 1, Len(rx))
    /\ terms' = TermsAfter(Len(line))
    /\ inflight' = inflight - (Len(terms) - Len(terms'))

(***************************************************************************)
(* lib.rs: connect.                                                        *)
(***************************************************************************)
OK_MPD == <<"O", "K", " ", "M", "P", "D", " ">>

\* connect::new after the greeting line is in `buffer`: the Version, or the
\* panic of either check
HandshakeResult(buffer) ==
    IF ~StartsWith(buffer, OK_MPD) THEN [ok |-> FALSE, val |-> NoVersion]
    ELSE VersionParse(TrimRight(SubSeq(buffer, Len(OK_MPD) + 1, Len(buffer))))

(***************************************************************************)
(* lib.rs: Connection::recv.                                               *)
(***************************************************************************)
ACK == <<"A", "C", "K">>
EOM == <<"O", "K", NL>>

\* recv: buffer.starts_with("ACK")
IsServerError(buffer) == StartsWith(buffer, ACK)

\* recv: buffer.ends_with(EOM), the negated loop condition
EndOfMessage(buffer) == EndsWith(buffer, EOM)

\* recv: the &str returned, buffer[..buffer.len() - EOM.len()].trim_right()
RecvText(buffer) == TrimRight(SubSeq(buffer, 1, Len(buffer) - Len(EOM)))

\* where recv's caller goes on once recv has returned Ok
RetLabel(c) ==
    CASE c \in {"sub", "listall", "playlist"} -> "sub_ret"
      [] c = "status" -> "status_ret"
      [] c = "song" -> "song_ret"

\* try! on an io::Result in run()/status(): Err leaves run(), and main's
\* unwrap ends the process
TryIo(ok, next) == IF ok THEN next ELSE "failed"

(***************************************************************************)
(* bin/mpc.rs: the arguments and what run() makes of them.                 *)
(***************************************************************************)
\* the subcommands declared in run(); "" stands for no subcommand
ModeSubs == {"consume", "random", "repeat", "single"}
PlainSubs == {"clear", "next", "pause", "prev", "stop"}
Subcommands ==
    ModeSubs \cup PlainSubs \cup
    {"add", "listall", "play", "playlist", "update", "version", "volume"}

\* VALUES
VALUES ==
    {<<"0">>, <<"1">>, <<"f", "a", "l", "s", "e">>, <<"n", "o">>, <<"o", "f", "f">>,
     <<"o", "n">>, <<"t", "r", "u", "e">>, <<"y", "e", "s">>}

\* the argument values clap lets through for a subcommand: a required
\* argument is always there, a `state` is one of VALUES
ArgsOf(s) ==
    CASE s \in ModeSubs -> {Some(v) : v \in VALUES}
      [] s = "add" -> {Some(<<"a">>)}
      [] s \in {"listall", "update"} -> {NoneStr, Some(<<"a">>)}
      [] s = "play" -> {NoneStr, Some(<<"1">>), Some(<<"2">>), Some(<<"0">>), Some(<<"x">>)}
      [] s = "volume" -> {Some(<<"5">>), Some(<<"x">>)}
      [] OTHER -> {NoneStr}

\* fn parse(value) of the boolean commands
BoolArg(value) ==
    value \in {<<"1">>, <<"o", "n">>, <<"t", "r", "u", "e">>, <<"y", "e", "s">>}

\* the Mode of a boolean subcommand
ModeOf(s) ==
    CASE s = "consume" -> "Consume"
      [] s = "random" -> "Random"
      [] s = "repeat" -> "Repeat"
      [] s = "single" -> "Single"

\* the Command of a subcommand without arguments
PlainCmd(s) ==
    CASE s = "clear" -> CmdPlain("Clear")
      [] s = "next" -> CmdPlain("Next")
      [] s = "pause" -> Cmd("Pause", NoneStr, TRUE, NoneInt, "Consume")
      [] s = "prev" -> CmdPlain("Previous")
      [] s = "stop" -> CmdPlain("Stop")

\* u32::checked_sub(1) under and_then
CheckedSub1(o) == IF o.some /\ o.val >= 1 THEN Some(o.val - 1) ELSE NoneInt

\* the `position` of play: s.parse::<u32>().ok().and_then(|i| i.checked_sub(1));
\* None is what sends run() to invalid_value
PlayPosition(s) == CheckedSub1(ParseUnsigned(s, U32Max))

\* what an arm of the match in run() comes to, up to the first blocking
\* call: `how` is "send" (a command goes out, `as` names the arm for the
\* code after recv), "print" (the version arm), "exit" (invalid_value) or
\* "panic" (an unwrap on None)
Sends(c, site, q) == [how |-> "send", cmd |-> c, as |-> site, quiet |-> q]

Stops(h, q) == [how |-> h, cmd |-> CmdPlain("Status"), as |-> "sub", quiet |-> q]

\* the volume arm, level the outcome of value.parse().ok()
VolumeArm(level, q) ==
    IF level.some THEN Sends(Cmd("Volume", NoneStr, FALSE, level, "Consume"), "sub", q)
    ELSE Stops("panic", q)

\* the play arm with a position argument, pos the outcome of PlayPosition
PlayAt(pos, q) ==
    IF pos.some THEN Sends(Cmd("Play", NoneStr, FALSE, pos, "Consume"), "sub", q)
    ELSE Stops("exit", q)

\* the play arm
PlayArm(a, q) ==
    IF a.some THEN PlayAt(PlayPosition(a.val), q)
    ELSE Sends(Cmd("Play", NoneStr, FALSE, NoneInt, "Consume"), "sub", q)

\* the match of run() on the subcommand s with argument a
Matched(s, a) ==
    CASE s \in ModeSubs ->
            Sends(Cmd("Set", NoneStr, BoolArg(a.val), NoneInt, ModeOf(s)), "sub", quiet)
      [] s \in PlainSubs -> Sends(PlainCmd(s), "sub", quiet)
      [] s = "add" -> Sends(Cmd("Add", a, FALSE, NoneInt, "Consume"), "sub", quiet)
      [] s = "volume" -> VolumeArm(ParseUnsigned(a.val, U32Max), quiet)
      [] s = "update" -> Sends(Cmd("Update", a, FALSE, NoneInt, "Consume"), "sub", quiet)
      [] s = "play" -> PlayArm(a, quiet)
      [] s = "version" -> Stops("print", TRUE)
      [] s = "listall" -> Sends(Cmd("ListAll", a, FALSE, NoneInt, "Consume"), "listall", TRUE)
      [] s = "playlist" -> Sends(CmdPlain("PlaylistInfo"), "playlist", TRUE)

\* println!("mpd version: {}.{}.{}", ...)
VersionLine(v) ==
    <<"m", "p", "d", " ", "v", "e", "r", "s", "i", "o", "n", ":", " ">>
        \o ToDecimal(v.major) \o <<".">> \o ToDecimal(v.minor) \o <<".">> \o ToDecimal(v.patch)

\* println!("{} - {}", song.artist, song.title)
SongLine(song) == song.artist \o <<" ", "-", " ">> \o song.title

\* the listall arm after recv: the lines printed
FILE == <<"f", "i", "l", "e", ":", " ">>

RECURSIVE ListAllLines(_)
ListAllLines(lines) ==
    IF lines = <<>> THEN <<>>
    ELSE (IF StartsWith(Head(lines), FILE)
          THEN <<SubSeq(Head(lines), Len(FILE) + 1, Len(Head(lines)))>> ELSE <<>>)
         \o ListAllLines(Tail(lines))

\* a record separator that looks for the first tag of a song instead
SongSeparatorArtist == <<NL, "A", "r", "t", "i", "s", "t", ":">>

\* the playlist arm: the text that starts the next record, "\nfile:"
SongSeparator == <<NL, "f", "i", "l", "e", ":">>

\* the playlist arm after recv, from `while let` on: the songs decoded so
\* far and, when a Song::parse failed, its error (parse::bug then panics).
\* PlaylistBlock is the loop body once the block before `end` is decoded.
RECURSIVE PlaylistLoop(_, _)
PlaylistBlock(text, songs, end, song) ==
    IF ~song.ok THEN [ok |-> FALSE, songs |-> songs, err |-> song.err]
    ELSE IF end # 0
    THEN PlaylistLoop(SubSeq(text, end + 1, Len(text)), Append(songs, song.val))
    ELSE [ok |-> TRUE, songs |-> Append(songs, song.val), err |-> NoError]

PlaylistAt(text, songs, end) ==
    PlaylistBlock(text, songs, end,
                  SongParse(IF end # 0 THEN SubSeq(text, 1, end - 1) ELSE text))

PlaylistLoop(text, songs) == PlaylistAt(text, songs, Find(text, SongSeparator))

\* the playlist arm after recv
PlaylistSongs(text) ==
    IF Trim(text) = <<>> THEN [ok |-> TRUE, songs |-> <<>>, err |-> NoError]
    ELSE PlaylistLoop(text, <<>>)

\* status(): the `if let` that decides whether CurrentSong is asked for
WantsSong(st) == st.state # "Stop" /\ st.extra.some /\ st.extra.val.time.some

\* 100 * time.elapsed overflows u32 above this value of time.elapsed
MaxElapsedTimes100 == 42949672

\* 100 * elapsed in u32 arithmetic without overflow checks (one wrap, the
\* times of the model go no further)
WrappedTimes100(elapsed) ==
    IF elapsed <= MaxElapsedTimes100 THEN 100 * elapsed
    ELSE 100 * (elapsed - MaxElapsedTimes100 - 1) + 4

\* {:02}
Pad2(n) == IF n < 10 THEN <<"0">> \o ToDecimal(n) ELSE ToDecimal(n)

\* status(): `state`, for the states that are not Stop
StateName(st) ==
    IF st = "Pause" THEN <<"p", "a", "u", "s", "e", "d">>
    ELSE <<"p", "l", "a", "y", "i", "n", "g">>

\* println!("[{}] #{}/{}   {}:{:02}/{}:{:02} ({}%)", ...)
PositionLine(st, time) ==
    <<"[">> \o StateName(st.state) \o <<"]", " ", "#">> \o ToDecimal(st.extra.val.pos + 1)
        \o <<"/">> \o ToDecimal(st.playlist_length) \o <<" ", " ", " ">>
        \o ToDecimal(time.elapsed \div 60) \o <<":">> \o Pad2(time.elapsed % 60)
        \o <<"/">> \o ToDecimal(time.total \div 60) \o <<":">> \o Pad2(time.total % 60)
        \o <<" ", "(">> \o ToDecimal(WrappedTimes100(time.elapsed) \div time.total)
        \o <<"%", ")">>

\* fn onoff
OnOff(on) == IF on THEN <<"o", "n", " ">> ELSE <<"o", "f", "f">>

\* println!("volume: {}   repeat: {}   random: {}   single: {}   consume: {}", ...)
VolumeLine(st) ==
    <<"v", "o", "l", "u", "m", "e", ":", " ">>
        \o (IF st.volume.some THEN ToDecimal(st.volume.val) \o <<"%">> ELSE <<"n", "/", "a">>)
        \o <<" ", " ", " ", "r", "e", "p", "e", "a", "t", ":", " ">> \o OnOff(st.repeat)
        \o <<" ", " ", " ", "r", "a", "n", "d", "o", "m", ":", " ">> \o OnOff(st.random)
        \o <<" ", " ", " ", "s", "i", "n", "g", "l", "e", ":", " ">> \o OnOff(st.single)
        \o <<" ", " ", " ", "c", "o", "n", "s", "u", "m", "e", ":", " ">> \o OnOff(st.consume)

\* status() from `if let Some(id) = status.updating_db` to its end: the
\* lines printed
StatusTail(st) ==
    (IF st.updating_db.some
     THEN <<<<"U", "p", "d", "a", "t", "i", "n", "g", " ", "D", "B", " ", "(", "#">>
              \o ToDecimal(st.updating_db.val) \o <<")", " ", ".", ".", ".">>>>
     ELSE <<>>)
    \o <<VolumeLine(st)>>

(***************************************************************************)
(* The environment: the MPD server at the other end of the stream.  It     *)
(* greets once, answers each command line with one reply (body lines, then *)
(* `OK` or an `ACK ...` line), may fall silent before a reply is whole     *)
(* (and then sends nothing more), and may close the stream at any time.    *)
(***************************************************************************)
OkLine == <<"O", "K", NL>>
AckLine ==
    <<"A", "C", "K", " ", "[", "5", "@", "0", "]", " ", "{", "p", "l", "a", "y", "}", " ",
      "e", "r", "r", "o", "r", NL>>
AckOkLine ==
    <<"A", "C", "K", " ", "[", "2", "@", "0", "]", " ", "{", "}", " ",
      "n", "o", "t", " ", "O", "K", NL>>
TermLines == {OkLine, AckLine, AckOkLine}

\* a line ends a reply when it is `OK` or begins with `ACK`
IsTerminator(line) == line = OkLine \/ StartsWith(line, <<"A", "C", "K">>)

\* body lines of the short replies
BodyLines ==
    {<<"f", "i", "l", "e", ":", " ", "a", NL>>,
     <<"T", "i", "t", "l", "e", ":", " ", "O", "K", NL>>}

\* sequences over S of length up to n
SeqsUpTo(S, n) == UNION {[1..k -> S] : k \in 0..n}

\* the short replies: up to MaxReplyLines lines, whole (a terminator last)
\* or cut before the terminator
ShortReplies ==
    SeqsUpTo(BodyLines, MaxReplyLines) \cup
    {Append(b, t) : b \in SeqsUpTo(BodyLines, MaxReplyLines - 1), t \in TermLines}

\* replies to `status`: the required keys, then optionally song and time,
\* then optionally an `error` line
StatusReplyLines(vol, st, withSong, tm, withError) ==
    <<<<"v", "o", "l", "u", "m", "e", ":", " ">> \o vol \o <<NL>>,
      <<"r", "e", "p", "e", "a", "t", ":", " ", "0", NL>>,
      <<"r", "a", "n", "d", "o", "m", ":", " ", "0", NL>>,
      <<"s", "i", "n", "g", "l", "e", ":", " ", "0", NL>>,
      <<"c", "o", "n", "s", "u", "m", "e", ":", " ", "0", NL>>,
      <<"p", "l", "a", "y", "l", "i", "s", "t", "l", "e", "n", "g", "t", "h", ":", " ", "2", NL>>,
      <<"s", "t", "a", "t", "e", ":", " ">> \o st \o <<NL>>>>
    \o (IF withSong THEN <<<<"s", "o", "n", "g", ":", " ", "1", NL>>>> ELSE <<>>)
    \o (IF tm # <<>> THEN <<<<"t", "i", "m", "e", ":", " ">> \o tm \o <<NL>>>> ELSE <<>>)
    \o (IF withError
        THEN <<<<"e", "r", "r", "o", "r", ":", " ", "n", "o", "t", " ", "O", "K", NL>>>>
        ELSE <<>>)
    \o <<OkLine>>

StatusReplies ==
    {StatusReplyLines(<<"7", "3">>, <<"p", "l", "a", "y">>, TRUE, <<"5", ":", "2", "0", "0">>, FALSE),
     StatusReplyLines(<<"7", "3">>, <<"p", "l", "a", "y">>, TRUE, <<"5", ":", "2", "0", "0">>, TRUE),
     StatusReplyLines(<<"7", "3">>, <<"p", "l", "a", "y">>, TRUE, <<"5", ":", "0">>, FALSE),
     StatusReplyLines(<<"7", "3">>, <<"p", "a", "u", "s", "e">>, TRUE,
                      <<"4", "2", "9", "4", "9", "6", "7", "3", ":", "1">>, FALSE),
     StatusReplyLines(<<"7", "3">>, <<"s", "t", "o", "p">>, FALSE, <<>>, FALSE)}

\* a reply to `currentsong`
SongReplies ==
    {<<<<"A", "r", "t", "i", "s", "t", ":", " ", "A", NL>>,
       <<"T", "i", "t", "l", "e", ":", " ", "T", NL>>,
       OkLine>>}

Replies == ShortReplies \cup StatusReplies \cup SongReplies

\* a version component as the server writes it: the text, and whether it
\* is a numeral and of what value (val is -1 where there is none to give: no
\* numeral, or a numeral beyond u32)
Component(text, numeric, val) == [text |-> text, numeric |-> numeric, val |-> val]

Components ==
    {Component(<<"0">>, TRUE, 0),
     Component(<<"1", "9">>, TRUE, 19),
     Component(<<"9">>, TRUE, 9),
     Component(<<"4", "2", "9", "4", "9", "6", "7", "2", "9", "6">>, TRUE, -1),
     Component(<<"x">>, FALSE, -1),
     Component(<<>>, FALSE, -1)}

\* a greeting as the server composes it: a prefix, the version components
\* joined by ".", and the end of the line
RECURSIVE JoinDots(_)
JoinDots(parts) ==
    IF parts = <<>> THEN <<>>
    ELSE IF Len(parts) = 1 THEN parts[1].text
    ELSE parts[1].text \o <<".">> \o JoinDots(Tail(parts))

GreetingText(g) == g.prefix \o JoinDots(g.parts) \o g.tail

Greeting(prefix, parts, tail) == [prefix |-> prefix, parts |-> parts, tail |-> tail]
NoGreeting == Greeting(<<>>, <<>>, <<>>)

HELLO == <<"H", "E", "L", "L", "O">>

\* the greeting of MPD 0.19.9
Greeting0199 ==
    Greeting(OK_MPD, <<Component(<<"0">>, TRUE, 0), Component(<<"1", "9">>, TRUE, 19),
                       Component(<<"9">>, TRUE, 9)>>, <<NL>>)

\* the greetings served while the front end is exercised
RunGreetings ==
    {Greeting0199,
     Greeting(OK_MPD, <<Component(<<"0">>, TRUE, 0), Component(<<"1", "9">>, TRUE, 19)>>,
              <<NL>>),
     Greeting(HELLO, <<>>, <<NL>>)}

\* how a greeting may end: a line ending, or nothing when the stream is
\* closed right after the text
Tails == {<<NL>>, <<"\r", NL>>, <<>>}

\* every greeting of up to MaxComponents components, and two without the
\* prefix
Greetings ==
    {Greeting(OK_MPD, parts, tail) : parts \in SeqsUpTo(Components, MaxComponents),
                                     tail \in Tails}
    \cup {Greeting(HELLO, <<>>, <<NL>>),
          Greeting(HELLO \o <<" ">>, Greeting0199.parts, <<NL>>)}

\* the server sends its greeting
ServerGreet(G) ==
    /\ pc = "greeting" /\ ~greeted /\ ~closed
    /\ \E g \in G :
          /\ rx' = GreetingText(g)
          /\ greeting' = g
    /\ greeted' = TRUE
    /\ UNCHANGED <<prog, tx, closed, lastReply, nsent, inflight, terms, clean, eofSeen, fn>>

\* a reply that is whole: its last line is a terminator
IsWhole(r) == r # <<>> /\ IsTerminator(r[Len(r)])

\* the server takes one command line and answers it with a reply of R
ServerReply(R) ==
    /\ greeted /\ ~closed
    /\ lastReply = <<>> \/ IsWhole(lastReply)
    /\ pc \in {"recv_first", "recv_loop"}
    /\ \E n \in {Find(tx, <<NL>>)} :
          /\ n # 0
          /\ tx' = SubSeq(tx, n + 1, Len(tx))
    /\ \E r \in R :
          /\ rx' = rx \o Concat(r)
          /\ lastReply' = r
          /\ terms' = IF r # <<>> /\ IsTerminator(r[Len(r)])
                      THEN Append(terms, Len(rx')) ELSE terms
    /\ UNCHANGED <<prog, closed, greeted, greeting, nsent, inflight, clean, eofSeen, fn>>

\* the server closes the stream
ServerClose ==
    /\ pc \in {"greeting", "recv_first", "recv_loop"}
    /\ ~closed
    /\ closed' = TRUE
    /\ UNCHANGED <<prog, rx, tx, greeted, hist, fn>>

(***************************************************************************)
(* The process: run() and status() of bin/mpc.rs with the library calls    *)
(* they make.  An action runs from one blocking call to the next.          *)
(*                                                                         *)
(* pc: "start"       run() entered, arguments parsed                       *)
(*     "greeting"    connect::new at its read_line                         *)
(*     "dispatch"    run() at the match on the subcommand                  *)
(*     "send"        Connection::send about to write `cmd`                 *)
(*     "recv_first"  Connection::recv at its first read_line               *)
(*     "recv_loop"   Connection::recv at the read_line of its loop         *)
(*     "sub_ret"     run() after the recv of the subcommand                *)
(*     "status_call" run() at `if !quiet`                                  *)
(*     "status_ret"  status() after the recv of Status                     *)
(*     "song_ret"    status() after the recv of CurrentSong                *)
(*     "done"        run() returned Ok(())                                 *)
(*     "failed"      run() returned Err and main's unwrap panicked         *)
(*     "panicked"    a panic! / unwrap / parse::bug                        *)
(*     "exited"      invalid_value called process::exit(1)                 *)
(***************************************************************************)
Terminal == pc \in {"done", "failed", "panicked", "exited"}

\* run() with no subcommand and --quiet: neither `if` body runs
NothingToDo ==
    /\ pc = "start" /\ sub = "" /\ quiet
    /\ pc' = "done"
    /\ UNCHANGED <<sub, arg, quiet, fault, conn, cmd, caller, ret, status, stdout,
                   net, hist, fn>>

\* connect(conn_opt) with conn_opt = None: TcpStream::connect
TcpConnect ==
    /\ pc = "start" /\ ~(sub = "" /\ quiet)
    /\ \E ok \in BOOLEAN :
          /\ pc' = TryIo(ok, "greeting")
          /\ fault' = IF ok THEN fault ELSE "connect"
    /\ UNCHANGED <<sub, arg, quiet, conn, cmd, caller, ret, status, stdout, net, hist, fn>>

\* connect::new: read the greeting line, check it, build the Connection
Handshake ==
    /\ pc = "greeting"
    /\ \E ok \in BOOLEAN :
          IF ~ok
          THEN /\ pc' = TryIo(ok, "greeting")
               /\ fault' = "connect"
               /\ UNCHANGED <<conn, rx, terms, inflight>>
          ELSE /\ CanReadLine
               /\ \E line \in {LineRead} : \E v \in {HandshakeResult(line)} :
                     /\ Consume(line)
                     /\ IF v.ok
                        THEN /\ conn' = [some |-> TRUE, buffer |-> <<>>, version |-> v.val]
                             /\ pc' = IF sub # "" THEN "dispatch" ELSE "status_call"
                             /\ fault' = fault
                        ELSE /\ pc' = "panicked"
                             /\ fault' = "handshake"
                             /\ conn' = conn
    /\ UNCHANGED <<sub, arg, quiet, cmd, caller, ret, status, stdout, tx, closed, greeted,
                   greeting, lastReply, nsent, clean, eofSeen, fn>>

\* run(): the match on the subcommand, up to the send or the end of the arm
Dispatch ==
    /\ pc = "dispatch"
    /\ \E m \in {Matched(sub, arg)} :
           /\ quiet' = m.quiet
           /\ cmd' = IF m.how = "send" THEN m.cmd ELSE cmd
           /\ caller' = m.as
           /\ pc' = CASE m.how = "send" -> "send"
                      [] m.how = "print" -> "status_call"
                      [] m.how = "exit" -> "exited"
                      [] m.how = "panic" -> "panicked"
           /\ fault' = IF m.how \in {"exit", "panic"} THEN "usage" ELSE fault
           /\ stdout' = IF m.how = "print"
                        THEN Append(stdout, VersionLine(conn.version)) ELSE stdout
    /\ sub' = "" /\ arg' = NoneStr     \* the arguments are not read again
    /\ UNCHANGED <<conn, ret, status, net, hist, fn>>

\* Connection::send: writeln! and flush
Send ==
    /\ pc = "send"
    /\ \E ok \in BOOLEAN :
          /\ pc' = TryIo(ok, "recv_first")
          /\ fault' = IF ok THEN fault ELSE "io"
          /\ tx' = IF ok THEN tx \o SendBytes(cmd) ELSE tx
          /\ nsent' = IF ok THEN nsent + 1 ELSE nsent
          /\ inflight' = IF ok THEN inflight + 1 ELSE inflight
          /\ clean' = IF ok THEN (rx = <<>> /\ inflight = 0) ELSE clean
    /\ UNCHANGED <<sub, arg, quiet, conn, cmd, caller, ret, status, stdout, rx, closed,
                   greeted, greeting, lastReply, terms, eofSeen, fn>>

\* recv after its first read_line: where the process goes on
FirstPass(line) ==
    IF IsServerError(line) THEN "panicked"
    ELSE IF EndOfMessage(line) THEN RetLabel(caller)
    ELSE "recv_loop"

\* recv after a read_line of its loop: where the process goes on
LoopPass(buf) == IF EndOfMessage(buf) THEN RetLabel(caller) ELSE "recv_loop"

\* Connection::recv from its start to the end of the first pass: clear the
\* buffer, read a line, test for ACK, test the loop condition
RecvFirst ==
    /\ pc = "recv_first"
    /\ \E ok \in BOOLEAN :
          /\ ok => CanReadLine
          /\ \E line \in {IF ok THEN LineRead ELSE <<>>} : \E next \in {FirstPass(line)} :
                 /\ conn' = [conn EXCEPT !.buffer = line]
                 /\ Consume(line)
                 /\ pc' = TryIo(ok, next)
                 /\ fault' = IF ~ok THEN "io"
                             ELSE IF next = "panicked" THEN "ack" ELSE fault
                 /\ ret' = IF ok /\ next \notin {"panicked", "recv_loop"}
                           THEN RecvText(line) ELSE ret
                 /\ eofSeen' = (eofSeen \/ (ok /\ line = <<>>))
    /\ UNCHANGED <<sub, arg, quiet, cmd, caller, status, stdout, tx, closed, greeted,
                   greeting, lastReply, nsent, clean, fn>>

\* Connection::recv, one pass of its while loop: read a line, test the
\* loop condition
RecvLoop ==
    /\ pc = "recv_loop"
    /\ \E ok \in BOOLEAN :
          /\ ok => CanReadLine
          /\ \E line \in {IF ok THEN LineRead ELSE <<>>} :
             \E buf \in {conn.buffer \o line} : \E next \in {LoopPass(buf)} :
                 /\ conn' = [conn EXCEPT !.buffer = buf]
                 /\ Consume(line)
                 /\ pc' = TryIo(ok, next)
                 /\ fault' = IF ok THEN fault ELSE "io"
                 /\ ret' = IF ok /\ next # "recv_loop" THEN RecvText(buf) ELSE ret
                 /\ eofSeen' = (eofSeen \/ (ok /\ line = <<>>))
    /\ UNCHANGED <<sub, arg, quiet, cmd, caller, status, stdout, tx, closed, greeted,
                   greeting, lastReply, nsent, clean, fn>>

\* no songs, for the arms that decode none
NoSongs == [ok |-> TRUE, songs |-> <<>>, err |-> NoError]

\* run() after the recv of the subcommand: the rest of the arm
SubReturn ==
    /\ pc = "sub_ret"
    /\ \E pl \in {IF caller = "playlist" THEN PlaylistSongs(ret) ELSE NoSongs} :
          /\ IF ~pl.ok
             THEN /\ pc' = "panicked"
                  /\ fault' = "parse"
             ELSE /\ pc' = "status_call"
                  /\ fault' = fault
          /\ parseErr' = pl.err
          /\ stdout' = stdout \o
                (IF caller = "listall" THEN ListAllLines(StrLines(ret))
                 ELSE [i \in 1..Len(pl.songs) |-> SongLine(pl.songs[i])])
    /\ UNCHANGED <<sub, arg, quiet, conn, cmd, caller, ret, status, net, hist, served>>

\* run(): `if !quiet { status(connect(conn_opt)) }`, up to the send of Status
StatusCall ==
    /\ pc = "status_call"
    /\ IF quiet
       THEN /\ pc' = "done"
            /\ UNCHANGED <<cmd, caller>>
       ELSE /\ pc' = "send"
            /\ cmd' = CmdPlain("Status")
            /\ caller' = "status"
    /\ UNCHANGED <<sub, arg, quiet, fault, conn, ret, status, stdout, net, hist, fn>>

\* status() after the recv of Status: decode, then ask for the current
\* song or finish
StatusReturn ==
    /\ pc = "status_ret"
    /\ \E st \in {StatusParse(ret)} :
           IF ~st.ok
           THEN /\ pc' = "panicked"
                /\ fault' = "parse"
                /\ parseErr' = st.err
                /\ UNCHANGED <<status, cmd, caller, stdout>>
           ELSE /\ status' = st.val
                /\ fault' = fault
                /\ parseErr' = parseErr
                /\ IF WantsSong(st.val)
                   THEN /\ pc' = "send"
                        /\ cmd' = CmdPlain("CurrentSong")
                        /\ caller' = "song"
                        /\ stdout' = stdout
                   ELSE /\ pc' = "done"
                        /\ stdout' = stdout \o StatusTail(st.val)
                        /\ UNCHANGED <<cmd, caller>>
    /\ UNCHANGED <<sub, arg, quiet, conn, ret, net, hist, served>>

\* status() after the recv of CurrentSong: decode the song, print it, the
\* position line and the rest of the status.  The arithmetic of the position line panics on a
\* division by zero; 100 * elapsed beyond u32 panics in a build with
\* overflow checks and wraps in one without.
SongReturn ==
    /\ pc = "song_ret"
    /\ \E song \in {SongParse(ret)} : \E time \in {status.extra.val.time.val} :
           IF ~song.ok
           THEN /\ pc' = "panicked"
                /\ fault' = "parse"
                /\ parseErr' = song.err
                /\ stdout' = stdout
           ELSE /\ parseErr' = parseErr
                /\ \E checked \in BOOLEAN :
                      IF time.total = 0 \/ (checked /\ time.elapsed > MaxElapsedTimes100)
                      THEN /\ pc' = "panicked"
                           /\ fault' = "arith"
                           /\ stdout' = Append(stdout, SongLine(song.val))
                      ELSE /\ pc' = "done"
                           /\ fault' = fault
                           /\ stdout' = stdout \o <<SongLine(song.val),
                                                    PositionLine(status, time)>>
                                                \o StatusTail(status)
    /\ UNCHANGED <<sub, arg, quiet, conn, cmd, caller, ret, status, net, hist, served>>

(***************************************************************************)
(* The front end against the server.                                       *)
(***************************************************************************)
Init ==
    /\ sub \in Subcommands \cup {""}
    /\ arg \in ArgsOf(sub)
    /\ quiet \in BOOLEAN
    /\ pc = "start"
    /\ fault = "none"
    /\ conn = NoConn
    /\ cmd = CmdPlain("Status")
    /\ caller = "sub"
    /\ ret = <<>>
    /\ status = NoStatus
    /\ stdout = <<>>
    /\ rx = <<>> /\ tx = <<>> /\ closed = FALSE /\ greeted = FALSE
    /\ greeting = NoGreeting /\ lastReply = <<>>
    /\ nsent = 0 /\ inflight = 0 /\ terms = <<>> /\ clean = TRUE /\ eofSeen = FALSE
    /\ served = NoData /\ parseErr = NoError

Next ==
    \/ NothingToDo
    \/ TcpConnect
    \/ ServerGreet(RunGreetings)
    \/ Handshake
    \/ Dispatch
    \/ Send
    \/ ServerReply(Replies)
    \/ ServerClose
    \/ RecvFirst
    \/ RecvLoop
    \/ SubReturn
    \/ StatusCall
    \/ StatusReturn
    \/ SongReturn

Spec == Init /\ [][Next]_vars

(***************************************************************************)
(* connect against every greeting: `mpc version`.                          *)
(***************************************************************************)
InitConnect ==
    /\ Init
    /\ sub = "version"

NextConnect ==
    \/ TcpConnect
    \/ ServerGreet(Greetings)
    \/ ServerClose
    \/ Handshake
    \/ Dispatch
    \/ StatusCall

SpecConnect == InitConnect /\ [][NextConnect]_vars

(***************************************************************************)
(* Connection::send with every Command: a client of the library at a       *)
(* send on a Connection that is ready.                                     *)
(***************************************************************************)
\* uris: plain, with a space, with a quote, with a line break
Uris == {<<"a">>, <<"a", " ", "b">>, <<"a", "\"", "b">>, <<"a", NL, "b">>}

OptUris == {NoneStr} \cup {Some(u) : u \in Uris}

OptNums == {NoneInt} \cup {Some(n) : n \in 0..MaxNum}

\* enum Command
Commands ==
    {CmdPlain(op) : op \in {"Clear", "CurrentSong", "Next", "PlaylistInfo", "Previous",
                            "Status", "Stop"}}
    \cup {Cmd("Add", Some(u), FALSE, NoneInt, "Consume") : u \in Uris}
    \cup {Cmd("ListAll", u, FALSE, NoneInt, "Consume") : u \in OptUris}
    \cup {Cmd("Update", u, FALSE, NoneInt, "Consume") : u \in OptUris}
    \cup {Cmd("Pause", NoneStr, b, NoneInt, "Consume") : b \in BOOLEAN}
    \cup {Cmd("Play", NoneStr, FALSE, n, "Consume") : n \in OptNums}
    \cup {Cmd("Volume", NoneStr, FALSE, Some(n), "Consume") : n \in 0..MaxNum}
    \cup {Cmd("Set", NoneStr, b, NoneInt, m) : b \in BOOLEAN, m \in Modes}

\* a Connection after a handshake with MPD 0.19.9
ReadyConn == [some |-> TRUE, buffer |-> <<>>, version |-> [major |-> 0, minor |-> 19, patch |-> 9]]

InitEncode ==
    /\ sub = "" /\ arg = NoneStr /\ quiet = TRUE
    /\ pc = "send"
    /\ fault = "none"
    /\ conn = ReadyConn
    /\ cmd \in Commands
    /\ caller = "sub"
    /\ ret = <<>>
    /\ status = NoStatus
    /\ stdout = <<>>
    /\ rx = <<>> /\ tx = <<>> /\ closed = FALSE /\ greeted = TRUE
    /\ greeting = Greeting0199 /\ lastReply = <<>>
    /\ nsent = 0 /\ inflight = 0 /\ terms = <<>> /\ clean = TRUE /\ eofSeen = FALSE
    /\ served = NoData /\ parseErr = NoError

NextEncode == Send

SpecEncode == InitEncode /\ [][NextEncode]_vars

(***************************************************************************)
(* `mpc playlist` against a server that holds a playlist.                  *)
(***************************************************************************)
\* the songs of the server's playlist
Records ==
    [artist : {<<"A">>, <<"B">>}, title : {<<"T">>, <<"U">>}, file : {<<"x">>, <<"y">>}]

\* a playlist: its songs, and whether the server writes the `file` line of
\* a record first or last
Playlists ==
    [kind : {"playlist"}, layout : {"file_first", "file_last"},
     songs : SeqsUpTo(Records, MaxSongs)]

ArtistLine(r) == <<"A", "r", "t", "i", "s", "t", ":", " ">> \o r.artist \o <<NL>>
TitleLine(r) == <<"T", "i", "t", "l", "e", ":", " ">> \o r.title \o <<NL>>
FileLine(r) == <<"f", "i", "l", "e", ":", " ">> \o r.file \o <<NL>>

\* the lines of one record
RecordLines(layout, r) ==
    IF layout = "file_first" THEN <<FileLine(r), ArtistLine(r), TitleLine(r)>>
    ELSE <<ArtistLine(r), TitleLine(r), FileLine(r)>>

\* the reply to `playlistinfo`: the records one after the other, then `OK`
RECURSIVE PlaylistLines(_, _)
PlaylistLines(layout, songs) ==
    IF songs = <<>> THEN <<OkLine>>
    ELSE RecordLines(layout, Head(songs)) \o PlaylistLines(layout, Tail(songs))

InitPlaylist ==
    /\ sub = "playlist" /\ arg = NoneStr /\ quiet \in BOOLEAN
    /\ pc = "start"
    /\ fault = "none"
    /\ conn = NoConn
    /\ cmd = CmdPlain("Status")
    /\ caller = "sub"
    /\ ret = <<>>
    /\ status = NoStatus
    /\ stdout = <<>>
    /\ rx = <<>> /\ tx = <<>> /\ closed = FALSE /\ greeted = FALSE
    /\ greeting = NoGreeting /\ lastReply = <<>>
    /\ nsent = 0 /\ inflight = 0 /\ terms = <<>> /\ clean = TRUE /\ eofSeen = FALSE
    /\ served \in Playlists /\ parseErr = NoError

NextPlaylist ==
    \/ TcpConnect
    \/ ServerGreet({Greeting0199})
    \/ Handshake
    \/ Dispatch
    \/ Send
    \/ ServerReply({PlaylistLines(served.layout, served.songs)})
    \/ ServerClose
    \/ RecvFirst
    \/ RecvLoop
    \/ SubReturn
    \/ StatusCall

SpecPlaylist == InitPlaylist /\ [][NextPlaylist]_vars

(***************************************************************************)
(* `mpc` without a subcommand against a server with a given volume.        *)
(***************************************************************************)
\* a volume as the server writes it: the text, whether it is an integer
\* string, and the integer it writes
Volume(text, integer, level) == [text |-> text, integer |-> integer, level |-> level]

Volumes ==
    {Volume(<<"-", "1">>, TRUE, -1),
     Volume(<<"0">>, TRUE, 0),
     Volume(<<"7", "3">>, TRUE, 73),
     Volume(<<"1", "0", "0">>, TRUE, 100),
     Volume(<<"2", "5", "5">>, TRUE, 255),
     Volume(<<"2", "5", "6">>, TRUE, 256),
     Volume(<<"3", "0", "0">>, TRUE, 300),
     Volume(<<"-", "5">>, TRUE, -5),
     Volume(<<"7", "3", "x">>, FALSE, 0),
     Volume(<<"x">>, FALSE, 0),
     Volume(<<"7", ".", "5">>, FALSE, 0),
     Volume(<<>>, FALSE, 0)}

\* what the server holds: the volume and the player's state (no current song)
Players ==
    [kind : {"player"}, volume : Volumes,
     state : {<<"p", "l", "a", "y">>, <<"p", "a", "u", "s", "e">>, <<"s", "t", "o", "p">>}]

InitStatus ==
    /\ sub = "" /\ arg = NoneStr /\ quiet = FALSE
    /\ pc = "start"
    /\ fault = "none"
    /\ conn = NoConn
    /\ cmd = CmdPlain("Status")
    /\ caller = "sub"
    /\ ret = <<>>
    /\ status = NoStatus
    /\ stdout = <<>>
    /\ rx = <<>> /\ tx = <<>> /\ closed = FALSE /\ greeted = FALSE
    /\ greeting = NoGreeting /\ lastReply = <<>>
    /\ nsent = 0 /\ inflight = 0 /\ terms = <<>> /\ clean = TRUE /\ eofSeen = FALSE
    /\ served \in Players /\ parseErr = NoError

NextStatus ==
    \/ TcpConnect
    \/ ServerGreet({Greeting0199})
    \/ Handshake
    \/ StatusCall
    \/ Send
    \/ ServerReply({StatusReplyLines(served.volume.text, served.state, FALSE, <<>>, FALSE)})
    \/ ServerClose
    \/ RecvFirst
    \/ RecvLoop
    \/ StatusReturn

SpecStatus == InitStatus /\ [][NextStatus]_vars

(***************************************************************************)
(* The record decoders against response bodies: a caller of the library    *)
(* that holds a body and hands it to Status::parse or Song::parse, as      *)
(* status() does.  pc is "decode" until the decoder has returned.          *)
(***************************************************************************)
\* a line of a body as the server writes it: key, separator or none, value;
\* `fails` tells what the decoder makes of the value ("no": it converts,
\* "late": the error is stored and raised after the scan, "now": the error
\* ends the scan), `num` is the number a `song` value writes
Line(key, value, sep, fails, num) ==
    [key |-> key, value |-> value, sep |-> sep, fails |-> fails, num |-> num]

LineText(l) == l.key \o (IF l.sep THEN <<":", " ">> ELSE <<>>) \o l.value

\* the keys a record requires, in the order the decoder asks for them
RequiredKeys(dec) ==
    IF dec = "Status"
    THEN <<<<"c", "o", "n", "s", "u", "m", "e">>, <<"p", "l", "a", "y", "l", "i", "s", "t", "l", "e", "n", "g", "t", "h">>, <<"r", "a", "n", "d", "o", "m">>, <<"r", "e", "p", "e", "a", "t">>, <<"s", "i", "n", "g", "l", "e">>, <<"s", "t", "a", "t", "e">>, <<"v", "o", "l", "u", "m", "e">>>>
    ELSE <<<<"A", "r", "t", "i", "s", "t">>, <<"T", "i", "t", "l", "e">>>>

\* the lines of the required keys in the order the server writes them
WireLines(dec) ==
    IF dec = "Status"
    THEN <<Line(<<"v", "o", "l", "u", "m", "e">>, <<"7", "3">>, TRUE, "no", 0),
           Line(<<"r", "e", "p", "e", "a", "t">>, <<"0">>, TRUE, "no", 0),
           Line(<<"r", "a", "n", "d", "o", "m">>, <<"1">>, TRUE, "no", 0),
           Line(<<"s", "i", "n", "g", "l", "e">>, <<"0">>, TRUE, "no", 0),
           Line(<<"c", "o", "n", "s", "u", "m", "e">>, <<"0">>, TRUE, "no", 0),
           Line(<<"p", "l", "a", "y", "l", "i", "s", "t", "l", "e", "n", "g", "t", "h">>, <<"2">>, TRUE, "no", 0),
           Line(<<"s", "t", "a", "t", "e">>, <<"p", "l", "a", "y">>, TRUE, "no", 0)>>
    ELSE <<Line(<<"A", "r", "t", "i", "s", "t">>, <<"A">>, TRUE, "no", 0),
           Line(<<"T", "i", "t", "l", "e">>, <<"T">>, TRUE, "no", 0)>>

\* a required line whose value does not convert
BadLines(dec) ==
    IF dec = "Status" THEN {Line(<<"r", "a", "n", "d", "o", "m">>, <<"2">>, TRUE, "late", 0)} ELSE {}

\* the other lines a body may carry
ExtraLines(dec) ==
    IF dec = "Status"
    THEN {Line(<<"s", "o", "n", "g">>, <<"7">>, TRUE, "no", 7),
          Line(<<"s", "o", "n", "g">>, <<"0">>, TRUE, "no", 0),
          Line(<<"t", "i", "m", "e">>, <<"5", ":", "2", "0", "0">>, TRUE, "no", 0),
          Line(<<"s", "o", "n", "g">>, <<"x">>, TRUE, "now", 0),
          Line(<<>>, <<>>, FALSE, "no", 0),
          Line(<<"j", "u", "n", "k">>, <<>>, FALSE, "no", 0)}
    ELSE {Line(<<"f", "i", "l", "e">>, <<"x">>, TRUE, "no", 0),
          Line(<<>>, <<>>, FALSE, "no", 0),
          Line(<<"T", "i", "t", "l", "e", ":", "T">>, <<>>, FALSE, "no", 0)}

\* the other lines of a body: at most one before, one amid and one after
\* the required ones, MaxExtra in all
Extras(dec) ==
    {e \in [front : SeqsUpTo(ExtraLines(dec), 1), mid : SeqsUpTo(ExtraLines(dec), 1),
            back : SeqsUpTo(ExtraLines(dec), 1)] :
        Len(e.front) + Len(e.mid) + Len(e.back) <= MaxExtra}

\* the sets of required keys a body leaves out
Absences(dec) ==
    {a \in SUBSET {RequiredKeys(dec)[i] : i \in 1..Len(RequiredKeys(dec))} :
        Cardinality(a) <= MaxMissing}

\* a body: the decoder it is for, the required keys it leaves out, the
\* required line it carries with a bad value (if any), and the other lines
Body(dec, absent, bad, e) ==
    [kind |-> "body", dec |-> dec, absent |-> absent, bad |-> bad,
     front |-> e.front, mid |-> e.mid, back |-> e.back]

\* the required line for a key as the body carries it
RequiredLine(b, l) == IF b.bad # <<>> /\ b.bad[1].key = l.key THEN b.bad[1] ELSE l

\* the required lines the body carries
RequiredLines(b) ==
    SelectSeq([i \in 1..Len(WireLines(b.dec)) |-> RequiredLine(b, WireLines(b.dec)[i])],
              LAMBDA l : l.key \notin b.absent)

\* the lines of the body, in order; r are its required lines
LinesAround(b, r) ==
    b.front \o SubSeq(r, 1, Len(r) \div 2) \o b.mid \o SubSeq(r, Len(r) \div 2 + 1, Len(r))
        \o b.back

LinesOf(b) == LinesAround(b, RequiredLines(b))

\* the text of the body, each line with its line end
RECURSIVE TextOf(_)
TextOf(lines) ==
    IF lines = <<>> THEN <<>> ELSE LineText(Head(lines)) \o <<NL>> \o TextOf(Tail(lines))

InitDecode ==
    /\ sub = "" /\ arg = NoneStr /\ quiet = FALSE
    /\ pc = "decode"
    /\ fault = "none"
    /\ conn = NoConn
    /\ cmd = CmdPlain("Status")
    /\ \E dec \in {"Status", "Song"} :
       \E absent \in Absences(dec), bad \in SeqsUpTo(BadLines(dec), 1), e \in Extras(dec) :
          served = Body(dec, absent, bad, e)
    /\ caller = (IF served.dec = "Status" THEN "status" ELSE "song")
    /\ ret = TextOf(LinesOf(served))
    /\ status = NoStatus
    /\ stdout = <<>>
    /\ rx = <<>> /\ tx = <<>> /\ closed = FALSE /\ greeted = FALSE
    /\ greeting = NoGreeting /\ lastReply = <<>>
    /\ nsent = 0 /\ inflight = 0 /\ terms = <<>> /\ clean = TRUE /\ eofSeen = FALSE
    /\ parseErr = NoError

\* Status::parse(..).unwrap_or_else(|e| parse::bug(e))
StatusDecode ==
    /\ pc = "decode" /\ caller = "status"
    /\ \E st \in {StatusParse(ret)} :
          /\ pc' = IF st.ok THEN "done" ELSE "panicked"
          /\ fault' = IF st.ok THEN fault ELSE "parse"
          /\ status' = IF st.ok THEN st.val ELSE status
          /\ parseErr' = st.err
    /\ UNCHANGED <<sub, arg, quiet, conn, cmd, caller, ret, stdout, net, hist, served>>

\* Song::parse(..).unwrap_or_else(|e| parse::bug(e)), and the song printed
SongDecode ==
    /\ pc = "decode" /\ caller = "song"
    /\ \E song \in {SongParse(ret)} :
          /\ pc' = IF song.ok THEN "done" ELSE "panicked"
          /\ fault' = IF song.ok THEN fault ELSE "parse"
          /\ stdout' = IF song.ok THEN Append(stdout, SongLine(song.val)) ELSE stdout
          /\ parseErr' = song.err
    /\ UNCHANGED <<sub, arg, quiet, conn, cmd, caller, ret, status, net, hist, served>>

NextDecode ==
    \/ StatusDecode
    \/ SongDecode

SpecDecode == InitDecode /\ [][NextDecode]_vars

(***************************************************************************)
(* Properties.                                                             *)
(***************************************************************************)
\* recv has just returned Ok to its caller
RecvReturned == pc \in {"sub_ret", "status_ret", "song_ret"}

\* recv is at a read_line
RecvWaiting == pc \in {"recv_first", "recv_loop"}

\* the latest command was written with nothing left unread, and the server
\* has taken it and answered it with lastReply
Answered == clean /\ nsent >= 1 /\ tx = <<>> /\ lastReply # <<>>

\* the last line of a reply
LastLine(r) == r[Len(r)]

\* a successful reply: body lines, then the line `OK`
IsSuccessReply(r) ==
    /\ r # <<>>
    /\ LastLine(r) = OkLine
    /\ \A i \in 1..(Len(r) - 1) : ~IsTerminator(r[i])

\* the body of a successful reply as recv is to return it
BodyText(r) == TrimRight(Concat(SubSeq(r, 1, Len(r) - 1)))

\* C1: when recv returns for a successful reply (body lines, then the line
\* `OK`), what it returns is the text of all body lines of that reply, and
\* nothing of the reply is left unread.
C1_RecvReturnsWholeBody ==
    (RecvReturned /\ Answered /\ IsSuccessReply(lastReply))
        => (ret = BodyText(lastReply) /\ rx = <<>>)

\* C2: a reply whose first line begins with `ACK` never makes recv return
\* Ok: recv does not return to its caller having read such a reply to its
\* end, whatever follows the token on the line.
C2_AckNeverOk ==
    (lastReply # <<>> /\ StartsWith(lastReply[1], ACK) /\ rx = <<>>)
        => ~RecvReturned

\* C3: once the whole of a reply (body lines, then `OK` or an `ACK` line)
\* has arrived and has been read, recv is not waiting for more.
C3_RecvCompletes ==
    (Answered /\ IsWhole(lastReply) /\ rx = <<>>) => ~RecvWaiting

\* C4: once a read_line of recv has met the end of the stream, recv has
\* returned a failure to its caller.
C4_EofFailsRecv == eofSeen => (pc = "failed" /\ fault = "io")

\* the greeting is `OK MPD <major>.<minor>.<patch>` with three numerals
NumericTriple(g) ==
    /\ g.prefix = OK_MPD
    /\ Len(g.parts) = 3
    /\ \A i \in 1..3 : g.parts[i].numeric

\* the three numerals fit u32
FitsU32(g) == \A i \in 1..3 : g.parts[i].val >= 0

\* the version a greeting announces
Announced(g) ==
    [major |-> g.parts[1].val, minor |-> g.parts[2].val, patch |-> g.parts[3].val]

\* connect has read the greeting line
GreetingRead == pc \notin {"start", "greeting"} /\ fault # "connect"

\* C5: connect yields a Connection only for a greeting `OK MPD a.b.c` of
\* exactly three numeric components, its version is then that triple, and
\* the greeting is read to its end; every other greeting (no prefix, an
\* empty line at end of stream, fewer or more components, a component that
\* is no numeral) is a handshake failure without a Connection; a greeting
\* of three numerals that fit u32 does yield one.
C5_Handshake ==
    /\ conn.some =>
          /\ greeted /\ NumericTriple(greeting)
          /\ conn.version = Announced(greeting)
          /\ rx = <<>>
    /\ (GreetingRead /\ ~NumericTriple(greeting)) =>
          (pc = "panicked" /\ fault = "handshake" /\ ~conn.some)
    /\ (GreetingRead /\ NumericTriple(greeting) /\ FitsU32(greeting)) => conn.some

\* C5 witness: the greeting `OK MPD 0.19.9` gave a Connection of version
\* 0.19.9, which `mpc version` printed.
C5_Witness ==
    /\ greeting = Greeting0199
    /\ conn.some
    /\ conn.version = [major |-> 0, minor |-> 19, patch |-> 9]
    /\ pc = "done" /\ Len(stdout) = 1

\* C6: what send has written is one line: the encoded command without a
\* line break in it, then exactly one line terminator.
C6_SendWritesOneLine ==
    pc = "recv_first" =>
        /\ tx = CommandStr(cmd) \o <<NL>>
        /\ \A i \in 1..Len(CommandStr(cmd)) : CommandStr(cmd)[i] # NL

\* C7: there is never more than one command whose reply has not been read
\* up to its terminator.
C7_OneInFlight == inflight <= 1

\* the server has answered the latest command it took with a failure: the
\* reply ends in an `ACK` line
ServerFailed == lastReply # <<>> /\ StartsWith(LastLine(lastReply), ACK)

\* C8: once the server has answered a command with an error sentinel the
\* Connection is Faulted, and no command is written to it after that (the
\* server has nothing new to take).
C8_NoSendAfterFault == ServerFailed => tx = <<>>

\* the lines `mpc playlist` is to print for a playlist
SongLines(songs) == [i \in 1..Len(songs) |-> SongLine(songs[i])]

\* the playlist arm has run
PlaylistPrinted == pc \in {"status_call", "done"}

\* C9: a playlist reply of N >= 1 song records, however the records are
\* laid out, is decoded without a failure into its N songs, in order.
C9_SplitsEveryLayout ==
    Len(served.songs) >= 1 =>
        /\ fault # "parse"
        /\ PlaylistPrinted => stdout = SongLines(served.songs)

\* C9, amended: a playlist reply of N >= 1 song records that each begin
\* with their `file` line is decoded without a failure into its N songs, in
\* order.
C9_SplitsFileFirst ==
    (Len(served.songs) >= 1 /\ served.layout = "file_first") =>
        /\ fault # "parse"
        /\ PlaylistPrinted => stdout = SongLines(served.songs)

\* C9 witness: two records, `file` line first, were printed as two songs.
C9_Witness ==
    /\ served.layout = "file_first"
    /\ Len(served.songs) = 2
    /\ served.songs[1].artist = <<"A">> /\ served.songs[2].artist = <<"B">>
    /\ pc = "done"
    /\ stdout = SongLines(served.songs)

\* Status::parse has returned in status()
StatusParsed == pc = "done" \/ fault = "parse"

\* Status::parse failed with a type-conversion error
TypeError == pc = "panicked" /\ fault = "parse" /\ parseErr.kind = "ParseType"

\* C10: `volume: -1` decodes to None, every other integer string to Some of
\* that integer, and a value that is no integer fails with ParseType.
C10_VolumeAnyInteger ==
    StatusParsed =>
        /\ served.volume.level = -1 => (pc = "done" /\ ~status.volume.some)
        /\ (served.volume.integer /\ served.volume.level # -1) =>
              (pc = "done" /\ status.volume = Some(served.volume.level))
        /\ ~served.volume.integer => TypeError

\* C10, amended: `volume: -1` decodes to None, a numeral from 0 to 255 to
\* Some of its value, and every other value (no integer, negative, above
\* 255) fails with ParseType.
C10_VolumeU8 ==
    StatusParsed =>
        /\ served.volume.level = -1 => (pc = "done" /\ ~status.volume.some)
        /\ (served.volume.integer /\ served.volume.level \in 0..255) =>
              (pc = "done" /\ status.volume = Some(served.volume.level))
        /\ (~served.volume.integer \/ served.volume.level \notin -1..255) =>
              (TypeError /\ parseErr.ty = "u8" /\ parseErr.text = served.volume.text)

\* C10 witness: `volume: 73` was decoded to Some(73).
C10_Witness ==
    /\ served.volume.text = <<"7", "3">>
    /\ pc = "done"
    /\ status.volume = Some(73)

\* the decoder has returned
Decoded == pc \in {"done", "panicked"}

\* the decoder failed with the error e
DecodeFailed(e) == pc = "panicked" /\ fault = "parse" /\ parseErr = e

\* the first of the required keys that the body leaves out
FirstMissing(b) ==
    RequiredKeys(b.dec)[CHOOSE i \in 1..Len(RequiredKeys(b.dec)) :
                           /\ RequiredKeys(b.dec)[i] \in b.absent
                           /\ \A j \in 1..(i - 1) : RequiredKeys(b.dec)[j] \notin b.absent]

\* every line of the body is `key: value` with a value that converts
WellFormed(b) ==
    \A i \in 1..Len(LinesOf(b)) : LinesOf(b)[i].sep /\ LinesOf(b)[i].fails = "no"

\* C11: a Status or Song body that leaves out one or more required keys is
\* decoded to the one error ExpectedKey that names the first of them and
\* carries the whole body, whatever else the body holds.
C11_MissingKeyAnyBody ==
    (Decoded /\ served.absent # {})
        => DecodeFailed(ExpectedKey(FirstMissing(served), ret))

\* C11, amended: a Status or Song body whose lines are all `key: value`
\* with values that convert, and that leaves out one or more required keys,
\* is decoded to the one error ExpectedKey that names the first of them (in
\* the order consume, playlistlength, random, repeat, single, state, volume;
\* Artist, Title) and carries the whole body; no required key is defaulted.
C11_MissingKeyWellFormed ==
    (Decoded /\ served.absent # {} /\ WellFormed(served))
        => DecodeFailed(ExpectedKey(FirstMissing(served), ret))

\* C11 witness: a Status body without `state` (and nothing else amiss) was
\* decoded to ExpectedKey naming `state`.
C11_Witness ==
    /\ served.dec = "Status"
    /\ served.absent = {<<"s", "t", "a", "t", "e">>}
    /\ WellFormed(served)
    /\ DecodeFailed(ExpectedKey(<<"s", "t", "a", "t", "e">>, ret))

\* the lines of the body without the separator
Malformed(b) == {i \in 1..Len(LinesOf(b)) : ~LinesOf(b)[i].sep}

\* the lines of the body that end the scan: those without the separator and
\* those whose value is rejected at once
Stoppers(b) ==
    {i \in 1..Len(LinesOf(b)) : ~LinesOf(b)[i].sep \/ LinesOf(b)[i].fails = "now"}

\* the first of them
FirstStopper(b) ==
    LinesOf(b)[CHOOSE i \in Stoppers(b) : \A j \in Stoppers(b) : i <= j]

\* the error that line ends the scan with
StopError(l) ==
    IF l.sep THEN ParseType("u32", l.value) ELSE MissingValue(LineText(l))

\* C12: a body with a line that lacks the separator (an empty line
\* included) is decoded to a malformed-line error, wherever the line is and
\* whatever the other lines are.
C12_MalformedLineAnyBody ==
    (Decoded /\ Malformed(served) # {})
        => /\ pc = "panicked" /\ fault = "parse"
           /\ parseErr.kind \in {"MissingKey", "MissingValue"}

\* C12, amended: a body with a line that lacks the separator (an empty line
\* included) is never decoded to a record, wherever the line is: the decode
\* fails with MissingValue carrying the first such line, unless an earlier
\* line holds a value that is rejected at once, and then with the ParseType
\* error of that value.
C12_MalformedLineFails ==
    (Decoded /\ Malformed(served) # {}) => DecodeFailed(StopError(FirstStopper(served)))

\* C12 witness: a Status body with all required keys and an empty line amid
\* them was decoded to MissingValue for that line.
C12_Witness ==
    /\ served.dec = "Status"
    /\ served.absent = {} /\ served.bad = <<>>
    /\ served.front = <<>> /\ served.back = <<>>
    /\ served.mid = <<Line(<<>>, <<>>, FALSE, "no", 0)>>
    /\ DecodeFailed(MissingValue(<<>>))

\* the lines of the body with the key `song`, and those with the key `time`
SongAt(b) == {i \in 1..Len(LinesOf(b)) : LinesOf(b)[i].key = <<"s", "o", "n", "g">>}

TimeAt(b) == {i \in 1..Len(LinesOf(b)) : LinesOf(b)[i].key = <<"t", "i", "m", "e">>}

\* the <n> of the (last) line `song: <n>`
SongNumber(b) == LinesOf(b)[CHOOSE i \in SongAt(b) : \A j \in SongAt(b) : j <= i].num

\* a well-formed Status body (every required key, every line `key: value`
\* with a value that converts) with `state: play`, `song: <n>`, no `time`
PlayingWithoutTime(b) ==
    /\ b.dec = "Status"
    /\ b.absent = {}
    /\ WellFormed(b)
    /\ SongAt(b) # {}
    /\ TimeAt(b) = {}

\* C13: a well-formed Status body with `state: play`, `song: <n>` and no
\* `time` key is decoded to a Status in state Play whose extra is present,
\* with pos = n and time = None.
C13_ExtraWithoutTime ==
    (Decoded /\ PlayingWithoutTime(served))
        => /\ pc = "done"
           /\ status.state = "Play"
           /\ status.extra.some
           /\ status.extra.val.pos = SongNumber(served)
           /\ ~status.extra.val.time.some

\* C13 witness: a body with `song: 7` ahead of the required keys and no
\* `time` was decoded to an Extra at position 7 without a Time.
C13_Witness ==
    /\ PlayingWithoutTime(served)
    /\ served.front = <<Line(<<"s", "o", "n", "g">>, <<"7">>, TRUE, "no", 7)>>
    /\ served.mid = <<>> /\ served.back = <<>>
    /\ pc = "done"
    /\ status.extra.some /\ status.extra.val.pos = 7 /\ ~status.extra.val.time.some

\* C14: what a recv hands back is made of the reply to the command just
\* sent and of nothing else: the server has taken that command, and the
\* buffer recv returned from is the beginning of the server's reply to it,
\* with no text of the greeting or of an earlier reply in it.
C14_RepliesIsolated ==
    RecvReturned => (tx = <<>> /\ StartsWith(Concat(lastReply), conn.buffer))

\* C15: the status display never fails on its arithmetic: it neither
\* panics on the position line (a division by zero, an overflow that the
\* build checks) nor prints a percentage from a product that went beyond
\* 32 bits.
C15_NoArithmeticFailure ==
    /\ fault # "arith"
    /\ (pc = "done" /\ WantsSong(status))
          => status.extra.val.time.elapsed <= MaxElapsedTimes100

====
